---- MODULE Spec2Model ----
(***************************************************************************)
(* State-machine model of packages/preferences/src/browser/                *)
(* preferences-tree-widget.ts: the PreferencesContainer, the               *)
(* PreferencesEditorsContainer and the PreferencesTreeWidget.              *)
(*                                                                         *)
(* Every asynchronous method is cut at its awaits: the code between two    *)
(* awaits is one atomic step (the UI event loop is single threaded), and a *)
(* suspended call is a record in `tasks`.  The program state touched by    *)
(* the synchronous code is packed into one record (S) so that methods are  *)
(* operators from records to records and compose as they do in the source. *)
(***************************************************************************)
EXTENDS Integers, Sequences, FiniteSets, TLC

(***************************************************************************)
(* Bounds of the model.                                                    *)
(***************************************************************************)
\* Widgets of one URI that exist at the same time: the live one and the
\* disposed ones something still refers to.
MaxGen == 2
\* Suspended asynchronous calls that may exist at the same time.
MaxTasks == 2
\* Calls of activatePreferenceEditor waiting for the first init event.
MaxWaiting == 1
\* Events of the environment (the workspace service, the user, the shell) in
\* one run that starts in any workspace; the steps of the program itself are
\* not counted.
MaxEvents == 2
\* The same for the runs that start in the saved two-folder workspace.
MaxEventsSaved == 3
\* Keys of one combined preference schema.
MaxKeys == 3
\* Environment events in the specification that draws the autoSave settings.
MaxEventsAutoSave == 1

(***************************************************************************)
(* URIs are paths: sequences of segments.  parent drops the last segment.  *)
(***************************************************************************)
NoUri == <<>>
UserUri == <<"user", "settings.json">>
WsUris == {<<"w1.theia-workspace">>, <<"w2.theia-workspace">>}
Folders == {<<"fA">>, <<"fB">>}
folderA == <<"fA">>
folderB == <<"fB">>

\* URI.parent
parent(uri) == IF Len(uri) = 0 THEN uri ELSE SubSeq(uri, 1, Len(uri) - 1)

\* All root lists of the workspace service: duplicate-free lists of folders.
RootLists == { <<>> } \cup { <<f>> : f \in Folders }
             \cup { p \in { <<f, g>> : f \in Folders, g \in Folders } : p[1] # p[2] }

Scopes == {"User", "Workspace", "Folder"}
NoScope == "none"
Keys == {"editor.fontSize", "files.exclude"}
Values == {"12", "on"}

\* A widget is named by the URI it was created for and a generation number;
\* the name stands for the object's identity (===).
AllUris == {UserUri} \cup WsUris \cup { f \o <<".theia", "settings.json">> : f \in Folders }
NoWidget == <<NoUri, 0>>
WidgetIds == AllUris \X (1..MaxGen)

\* The listeners PreferencesContainer.onAfterAttach registers.
TreeListener == "onPreferenceSelected"
ToDisposeListeners == {"onInit", "onEditorChanged", "onFolderPreferenceEditorUriChanged",
                       "onWorkspaceLocationChanged", "onWorkspaceChanged"}

VARIABLES
    \* workspace service
    roots,              \* tryGetRoots(): list of folder URIs
    saved,              \* workspaceService.saved
    wsConfig,           \* workspacePreferenceProvider.getConfigUri(), NoUri when undefined
    \* editor widgets, by identity
    wUri,               \* widget -> editor.uri (NoUri: not created yet)
    wScope,             \* widget -> scope tag
    wDirty,             \* widget -> saveable.dirty
    wDisposed,          \* widget -> closed and disposed
    \* PreferencesEditorsContainer
    ecState,            \* "none" | "created" | "attached" | "disposed"
    dock,               \* widgets(): the open editor widgets, in tab order
    userW, wsW, folderW,\* userPreferenceEditorWidget, workspace..., folders...
    initCount,          \* how often onInitEmitter fired
    \* PreferencesTreeWidget
    treeState,          \* "none" | "created" | "closed"
    activeFolderUri,    \* PreferencesTreeWidget.activeFolderUri
    \* PreferencesContainer
    pcStage,            \* position of onAfterAttach
    pcDisposed,         \* isDisposed
    pcClosing,          \* a close request has closed children
    children,           \* child widgets added to the split panel
    listeners,          \* listeners wired by onAfterAttach and still registered
    currentEditor,
    editors,            \* the tracked-editor list
    preferenceScope,
    deferredResolved,   \* deferredEditors is resolved
    waiting,            \* activatePreferenceEditor calls suspended on deferredEditors
    tasks,              \* suspended asynchronous calls
    events,             \* how many more events of the environment the run takes
    \* observation: what the last step was and the calls it issued, in program order
    effects,
    \* observation: the suspended calls of refreshFoldersPreferencesEditorWidget,
    \* the target of the one started last and whether it started while another
    \* one was suspended
    folderCalls,
    \* PreferencesTreeWidget: the tree model
    combinedSchema,         \* getCombinedSchema().properties: its keys in enumeration order
    preferencesGroupNames,  \* the Set of group names, in insertion order
    treeRoot,               \* model.root.children: the group nodes
    treeAttached,           \* onAfterAttach has run: the schema listener is registered
    \* saveable.autoSave of the document of each URI
    saveableAutoSave

vars == <<roots, saved, wsConfig, wUri, wScope, wDirty, wDisposed, ecState, dock,
          userW, wsW, folderW, initCount, treeState, activeFolderUri, pcStage,
          pcDisposed, pcClosing, children, listeners, currentEditor, editors,
          preferenceScope, deferredResolved, waiting, tasks, events, effects,
          folderCalls, combinedSchema, preferencesGroupNames, treeRoot, treeAttached,
          saveableAutoSave>>

\* The state as one record.
S == [roots |-> roots, saved |-> saved, wsConfig |-> wsConfig, wUri |-> wUri,
      wScope |-> wScope, wDirty |-> wDirty, wDisposed |-> wDisposed,
      ecState |-> ecState, dock |-> dock, userW |-> userW, wsW |-> wsW,
      folderW |-> folderW, initCount |-> initCount, treeState |-> treeState,
      activeFolderUri |-> activeFolderUri, pcStage |-> pcStage,
      pcDisposed |-> pcDisposed, pcClosing |-> pcClosing, children |-> children,
      listeners |-> listeners, currentEditor |-> currentEditor, editors |-> editors,
      preferenceScope |-> preferenceScope, deferredResolved |-> deferredResolved,
      waiting |-> waiting, tasks |-> tasks, events |-> events,
      effects |-> effects, folderCalls |-> folderCalls,
      \* not state: set when the step needs more widgets or tasks than the bounds allow
      blocked |-> FALSE]

\* The step's next state is the record s.
Commit(s) ==
    /\ roots' = s.roots /\ saved' = s.saved /\ wsConfig' = s.wsConfig
    /\ wUri' = s.wUri /\ wScope' = s.wScope /\ wDirty' = s.wDirty
    /\ wDisposed' = s.wDisposed /\ ecState' = s.ecState /\ dock' = s.dock
    /\ userW' = s.userW /\ wsW' = s.wsW /\ folderW' = s.folderW
    /\ initCount' = s.initCount /\ treeState' = s.treeState
    /\ activeFolderUri' = s.activeFolderUri /\ pcStage' = s.pcStage
    /\ pcDisposed' = s.pcDisposed /\ pcClosing' = s.pcClosing
    /\ children' = s.children /\ listeners' = s.listeners
    /\ currentEditor' = s.currentEditor /\ editors' = s.editors
    /\ preferenceScope' = s.preferenceScope
    /\ deferredResolved' = s.deferredResolved /\ waiting' = s.waiting
    /\ tasks' = s.tasks /\ events' = s.events /\ effects' = s.effects
    /\ folderCalls' = s.folderCalls
    /\ UNCHANGED <<combinedSchema, preferencesGroupNames, treeRoot, treeAttached,
                   saveableAutoSave>>

(***************************************************************************)
(* The log of one step.  Its first entry names the event or call that      *)
(* started the step with its inputs; the others are the calls issued.      *)
(***************************************************************************)
Eff(op, w, key, value, scope, uri) ==
    [op |-> op, w |-> w, key |-> key, value |-> value, scope |-> scope, uri |-> uri]
Ev(op) == Eff(op, NoWidget, "", "", NoScope, NoUri)
EvW(op, w) == Eff(op, w, "", "", NoScope, NoUri)
\* The listener of a roots-changed event is done: key says whether the event
\* changed the roots from [] to [folderA] ("emptyToA") or not ("other").
EvRoots(op, from) == [Ev(op) EXCEPT !.key = from]
\* saveable.save() is called on w: key says whether w was dirty.
EvSave(w, wasDirty) == [EvW("save", w) EXCEPT !.key = IF wasDirty THEN "dirty" ELSE "clean"]
Log(s, e) == [s EXCEPT !.effects = Append(@, e)]
\* A step starts with an empty log, or with the event it handles.
Begin(e) == [S EXCEPT !.effects = <<e>>]
\* A step that handles an event of the environment.
Input(e) == [Begin(e) EXCEPT !.events = @ - 1, !.blocked = events = 0]

\* Sequence helpers.
Range(seq) == { seq[i] : i \in 1..Len(seq) }
Remove(seq, x) == SelectSeq(seq, LAMBDA y : y # x)
IndexOf(seq, x) == CHOOSE i \in 1..Len(seq) : seq[i] = x

(***************************************************************************)
(* The editor manager (packages/editor, not in src/): getOrCreateByUri     *)
(* answers with the live widget of the URI when there is one and creates a *)
(* widget otherwise; the lookup happens when the call is made.             *)
(***************************************************************************)
LiveWidgets(s, uri) == { w \in WidgetIds : s.wUri[w] = uri /\ ~s.wDisposed[w] }
FreeWidgets(s, uri) == { w \in WidgetIds : w[1] = uri /\ s.wUri[w] = NoUri }
First(set) == CHOOSE x \in set : \A y \in set : x[2] <= y[2]

\* The widget getOrCreateByUri(uri) will resolve to (NoWidget: bound exhausted).
getOrCreateByUri(s, uri) ==
    IF LiveWidgets(s, uri) # {} THEN First(LiveWidgets(s, uri))
    ELSE IF FreeWidgets(s, uri) # {} THEN First(FreeWidgets(s, uri))
    ELSE NoWidget

\* The state once getOrCreateByUri(uri) has been called.
Created(s, uri) ==
    LET w == getOrCreateByUri(s, uri) IN
    IF w = NoWidget THEN [s EXCEPT !.blocked = TRUE]
    ELSE [s EXCEPT !.wUri[w] = uri]

\* A call suspended at an await.
\* The suspended calls of refreshFoldersPreferencesEditorWidget.
PendingFolder(ts) == { t \in ts : t.kind \in {"folderUri", "folderOpen"} }
\* No call of refreshFoldersPreferencesEditorWidget is suspended.
NoCalls == [last |-> NoUri, overlapped |-> FALSE]

Task(kind, origin, w, target, from) ==
    [kind |-> kind, origin |-> origin, w |-> w, target |-> target, from |-> from]

Suspend(s, task) ==
    IF Cardinality(s.tasks) >= MaxTasks \/ task \in s.tasks
    THEN [s EXCEPT !.blocked = TRUE]
    ELSE [s EXCEPT !.tasks = @ \cup {task}]

(***************************************************************************)
(* The dock panel (phosphor): addWidget with a reference widget puts the   *)
(* new tab after the reference; close removes the widget and, the editors  *)
(* being BaseWidgets, disposes it.                                         *)
(***************************************************************************)
InsertAfter(seq, w, ref) ==
    IF w = ref /\ w \in Range(seq) THEN seq
    ELSE LET rest == Remove(seq, w) IN
         IF ref \in Range(rest)
         THEN LET i == IndexOf(rest, ref) IN
              SubSeq(rest, 1, i) \o <<w>> \o SubSeq(rest, i + 1, Len(rest))
         ELSE Append(rest, w)

addWidget(s, w, ref) == [s EXCEPT !.dock = InsertAfter(@, w, ref)]

closeWidget(s, w) ==
    Log([s EXCEPT !.dock = Remove(@, w), !.wDisposed[w] = TRUE],
        Eff("closeEditor", w, "", "", s.wScope[w], s.wUri[w]))

\* a || b || c on widget references
Or3(a, b, c) == IF a # NoWidget THEN a ELSE IF b # NoWidget THEN b ELSE c

\* saveable.save() of one editor
saveEditor(s, w) == Log([s EXCEPT !.wDirty[w] = FALSE], EvSave(w, s.wDirty[w]))

(***************************************************************************)
(* PreferencesEditorsContainer, synchronous parts.                         *)
(***************************************************************************)
\* get activeFolder
activeFolder(s) ==
    IF s.folderW # NoWidget THEN parent(parent(s.wUri[s.folderW])) ELSE NoUri

\* variant: the reference is dropped, the widget stays open
closeFoldersPreferenceEditorWidgetKeep(s) == [s EXCEPT !.folderW = NoWidget]

closeFoldersPreferenceEditorWidget(s) ==
    IF s.folderW # NoWidget
    THEN [closeWidget(s, s.folderW) EXCEPT !.folderW = NoWidget]
    ELSE s

\* activatePreferenceEditor: the first widget of the scope is activated.
RECURSIVE FirstOfScope(_, _, _)
FirstOfScope(s, scope, i) ==
    IF i > Len(s.dock) THEN NoWidget
    ELSE IF s.wScope[s.dock[i]] = scope THEN s.dock[i]
    ELSE FirstOfScope(s, scope, i + 1)

ECactivatePreferenceEditor(s, scope) ==
    LET w == FirstOfScope(s, scope, 1) IN
    IF w # NoWidget THEN Log(s, EvW("activateWidget", w)) ELSE s

(***************************************************************************)
(* PreferencesContainer, synchronous parts.                                *)
(***************************************************************************)
\* get dirty: editors.some(editor => editor.saveable.dirty)
RECURSIVE SomeDirty(_, _, _)
SomeDirty(eds, isDirty, i) ==
    IF i > Len(eds) THEN FALSE
    ELSE IF isDirty[eds[i]] THEN TRUE
    ELSE SomeDirty(eds, isDirty, i + 1)

\* variant: only the first tracked editor is asked
dirtyOfFirst(s) == Len(s.editors) > 0 /\ s.wDirty[s.editors[1]]

dirtyOf(s) == SomeDirty(s.editors, s.wDirty, 1)

\* variant: only the first tracked editor is asked
autoSaveOfFirst(s) ==
    IF Len(s.editors) > 0 /\ saveableAutoSave[s.wUri[s.editors[1]]] = "on"
    THEN "on" ELSE "off"

\* get autoSave: editors.some(editor => editor.saveable.autoSave === 'on') ? 'on' : 'off'
autoSaveOf(s) ==
    IF \E i \in 1..Len(s.editors) : saveableAutoSave[s.wUri[s.editors[i]]] = "on"
    THEN "on" ELSE "off"

\* save(): editors.forEach(editor => editor.saveable.save())
RECURSIVE SaveFrom(_, _)
SaveFrom(s, i) ==
    IF i > Len(s.editors) THEN s
    ELSE SaveFrom(saveEditor(s, s.editors[i]), i + 1)

\* variant: only the dirty editors are saved
RECURSIVE SaveDirtyFrom(_, _)
SaveDirtyFrom(s, i) ==
    IF i > Len(s.editors) THEN s
    ELSE SaveDirtyFrom(IF s.wDirty[s.editors[i]] THEN saveEditor(s, s.editors[i]) ELSE s, i + 1)

saveOnlyDirty(s) == SaveDirtyFrom(s, 1)

save(s) == SaveFrom(s, 1)

doActivatePreferenceEditor(s, scope) ==
    LET s1 == [s EXCEPT !.preferenceScope = scope] IN
    IF s1.ecState # "none" THEN ECactivatePreferenceEditor(s1, scope) ELSE s1

\* handleEditorsChanged, first loop: push the widgets not yet tracked.
RECURSIVE PushNew(_, _, _)
PushNew(eds, cur, i) ==
    IF i > Len(cur) THEN eds
    ELSE PushNew(IF cur[i] \in Range(eds) THEN eds ELSE Append(eds, cur[i]), cur, i + 1)

\* handleEditorsChanged, second loop: splice out, from the end, what is gone.
RECURSIVE SpliceGone(_, _, _)
SpliceGone(eds, cur, i) ==
    IF i < 1 THEN eds
    ELSE SpliceGone(IF eds[i] \in Range(cur) THEN eds
                    ELSE SubSeq(eds, 1, i - 1) \o SubSeq(eds, i + 1, Len(eds)),
                    cur, i - 1)

\* variant: the second loop is missing
handleEditorsChangedPushOnly(s) ==
    LET pushed == PushNew(s.editors, s.dock, 1)
        s1 == Log([s EXCEPT !.editors = pushed], Ev("onDidChangeTrackableWidgets"))
    IN doActivatePreferenceEditor(s1, s1.preferenceScope)

\* PreferencesContainer.handleEditorsChanged (219-238)
handleEditorsChanged(s) ==
    LET pushed == PushNew(s.editors, s.dock, 1)
        kept == SpliceGone(pushed, s.dock, Len(pushed))
        s1 == Log([s EXCEPT !.editors = kept], Ev("onDidChangeTrackableWidgets"))
    IN doActivatePreferenceEditor(s1, s1.preferenceScope)

\* PreferencesTreeWidget.setActiveFolder
setActiveFolder(s, folder) == [s EXCEPT !.activeFolderUri = folder]

\* The listener of editorsContainer.onInit
onInitHandler(s) ==
    [handleEditorsChanged(s) EXCEPT !.deferredResolved = TRUE]

\* The listener of editorsContainer.onFolderPreferenceEditorUriChanged
onFolderUriChangedHandler(s, uriStr) ==
    handleEditorsChanged(IF s.treeState # "none" THEN setActiveFolder(s, uriStr) ELSE s)

\* variant: the previous editor is saved after the new one has become current
onEditorChangedSaveLast(s, editor) ==
    LET scope == IF s.wScope[editor] # NoScope THEN s.wScope[editor] ELSE "User"
        s1 == Log([s EXCEPT !.preferenceScope = scope], Eff("setScope", editor, "", "", scope, NoUri))
        s2 == Log([s1 EXCEPT !.currentEditor = editor], EvW("setCurrentEditor", editor))
    IN IF s.currentEditor # NoWidget /\ s.wUri[s.currentEditor] # s.wUri[editor]
       THEN saveEditor(s2, s.currentEditor) ELSE s2

\* The listener of editorsContainer.onEditorChanged
onEditorChangedHandler(s, editor) ==
    LET s1 == IF s.currentEditor # NoWidget /\ s.wUri[s.currentEditor] # s.wUri[editor]
              THEN saveEditor(s, s.currentEditor) ELSE s
        scope == IF s1.wScope[editor] # NoScope THEN s1.wScope[editor] ELSE "User"
        s2 == Log([s1 EXCEPT !.preferenceScope = scope], Eff("setScope", editor, "", "", scope, NoUri))
    IN Log([s2 EXCEPT !.currentEditor = editor], EvW("setCurrentEditor", editor))

\* variant: the dirty check is missing
onPreferenceSelectedUnguarded(s, key, value) ==
    IF s.currentEditor # NoWidget
    THEN Log(s, Eff("set", s.currentEditor, key, value,
                    s.wScope[s.currentEditor], s.wUri[s.currentEditor]))
    ELSE s

\* variant: the write goes to the User scope
onPreferenceSelectedUserScope(s, key, value) ==
    IF dirtyOf(s) THEN Log(s, Ev("warn"))
    ELSE IF s.currentEditor # NoWidget
    THEN Log(s, Eff("set", s.currentEditor, key, value, "User", s.wUri[s.currentEditor]))
    ELSE s

\* The listener of treeWidget.onPreferenceSelected
onPreferenceSelectedHandler(s, key, value) ==
    IF dirtyOf(s) THEN Log(s, Ev("warn"))
    ELSE IF s.currentEditor # NoWidget
    THEN Log(s, Eff("set", s.currentEditor, key, value,
                    s.wScope[s.currentEditor], s.wUri[s.currentEditor]))
    ELSE s

(***************************************************************************)
(* Asynchronous methods.  `o` says on whose behalf a call runs: the        *)
(* Editors Container's onAfterAttach ("attach"), the listener of           *)
(* onWorkspaceLocationChanged ("location"), the listener of                *)
(* onWorkspaceChanged ("roots", with whether the event changed the roots   *)
(* from [] to [folderA]) or a clickableTextCallback ("click").             *)
(***************************************************************************)
O(origin, from) == [origin |-> origin, from |-> from]

\* An exception leaves the asynchronous call: nothing after it runs.
Throw(s) == Log(s, Ev("TypeError"))

\* listeners registered on an emitter are called when it fires
Wired(s, listener) == listener \in s.listeners

\* onInitEmitter.fire (the emitter is disposed with the Editors Container)
fireInit(s) ==
    IF s.ecState = "disposed" THEN s
    ELSE LET s1 == Log([s EXCEPT !.initCount = @ + 1], Ev("onInit")) IN
         IF Wired(s1, "onInit") THEN onInitHandler(s1) ELSE s1

\* What follows refreshFoldersPreferencesEditorWidget / refreshFoldersPreferencesEditor
\* in the caller.
AfterFolders(s, o) ==
    CASE o.origin = "attach" -> fireInit(s)
      [] o.origin = "location" -> Log(handleEditorsChanged(s), Ev("locationHandled"))
      [] o.origin = "roots" -> Log(s, EvRoots("rootsHandled", o.from))
      [] OTHER -> Log(ECactivatePreferenceEditor(s, "Folder"), Ev("clickHandled"))

\* onFolderPreferenceEditorUriChangedEmitter.fire
fireFolderUriChanged(s, uriStr) ==
    LET s1 == Log(s, Eff("onFolderPreferenceEditorUriChanged", NoWidget, "", "", NoScope, uriStr)) IN
    IF Wired(s1, "onFolderPreferenceEditorUriChanged")
    THEN onFolderUriChangedHandler(s1, uriStr) ELSE s1

\* variant: the folder of the open Folder editor is not compared
finishFoldersAlways(s, w, newFolderUri, o) ==
    IF w # NoWidget
    THEN IF s.ecState = "disposed" THEN Throw(s)
         ELSE LET s1 == addWidget(s, w, Or3(s.folderW, s.wsW, s.userW))
                  s2 == closeFoldersPreferenceEditorWidget(s1)
                  s3 == [s2 EXCEPT !.folderW = w]
              IN AfterFolders(fireFolderUriChanged(s3, s3.wUri[w]), o)
    ELSE AfterFolders(s, o)

\* refreshFoldersPreferencesEditorWidget after its await: w is the widget
\* getFoldersPreferencesEditor returned (NoWidget: undefined).
finishFolders(s, w, newFolderUri, o) ==
    IF w # NoWidget /\ (s.folderW = NoWidget \/ activeFolder(s) # newFolderUri)
    THEN IF s.ecState = "disposed" THEN Throw(s)
         ELSE LET s1 == addWidget(s, w, Or3(s.folderW, s.wsW, s.userW))
                  s2 == closeFoldersPreferenceEditorWidget(s1)
                  s3 == [s2 EXCEPT !.folderW = w]
              IN AfterFolders(fireFolderUriChanged(s3, s3.wUri[w]), o)
    ELSE AfterFolders(s, o)

\* refreshFoldersPreferencesEditorWidget up to the first await
\* (getFoldersPreferencesEditor reads workspaceService.saved at once).
refreshFoldersPreferencesEditorWidget(s, currentFolderUri, o) ==
    LET newFolderUri == IF currentFolderUri # NoUri THEN currentFolderUri
                        ELSE IF Len(s.roots) > 0 THEN s.roots[1] ELSE NoUri
    IN IF s.saved
       THEN Suspend([s EXCEPT !.folderCalls = [last |-> newFolderUri,
                                               overlapped |-> PendingFolder(s.tasks) # {}]],
                    Task("folderUri", o.origin, NoWidget, newFolderUri, o.from))
       ELSE finishFolders(s, NoWidget, newFolderUri, o)

\* getFolderSettingsUri: the folder's .theia/settings.json (undefined without a folder)
getFolderSettingsUri(folderUri) ==
    IF folderUri = NoUri THEN NoUri ELSE folderUri \o <<".theia", "settings.json">>

\* variant: nothing is closed when the roots are empty
refreshFoldersPreferencesEditorNoClose(s, o) ==
    IF Len(s.roots) > 0 /\ ~(\E i \in 1..Len(s.roots) : s.roots[i] = activeFolder(s))
    THEN refreshFoldersPreferencesEditorWidget(s, s.roots[1], o)
    ELSE AfterFolders(s, o)

\* PreferencesContainer.refreshFoldersPreferencesEditor
refreshFoldersPreferencesEditor(s, o) ==
    IF Len(s.roots) = 0
    THEN AfterFolders(closeFoldersPreferenceEditorWidget(s), o)
    ELSE IF ~(\E i \in 1..Len(s.roots) : s.roots[i] = activeFolder(s))
    THEN refreshFoldersPreferencesEditorWidget(s, s.roots[1], o)
    ELSE AfterFolders(s, o)

\* variant: the location listener recomputes the tracked editors before it
\* refreshes the Folder editor
AfterWorkspaceTrackedFirst(s, o) ==
    IF o.origin = "attach"
    THEN refreshFoldersPreferencesEditorWidget(s, NoUri, o)
    ELSE refreshFoldersPreferencesEditor(handleEditorsChanged(s), o)

\* What follows refreshWorkspacePreferenceEditor in the caller.
AfterWorkspace(s, o) ==
    IF o.origin = "attach"
    THEN refreshFoldersPreferencesEditorWidget(s, NoUri, o)
    ELSE refreshFoldersPreferencesEditor(s, o)

\* refreshWorkspacePreferenceEditor after its await
finishWorkspace(s, w, o) ==
    IF w # NoWidget
    THEN IF s.ecState = "disposed" THEN Throw(s)
         ELSE LET s1 == addWidget(s, w, Or3(s.wsW, s.userW, NoWidget))
                  s2 == IF s1.wsW # NoWidget THEN closeWidget(s1, s1.wsW) ELSE s1
              IN AfterWorkspace([s2 EXCEPT !.wsW = w], o)
    ELSE AfterWorkspace(s, o)

\* variant: a missing workspace config URI is an error
refreshWorkspacePreferenceEditorStrict(s, o) ==
    IF s.wsConfig = NoUri THEN Throw(s)
    ELSE Suspend(Created(s, s.wsConfig),
                 Task("ws", o.origin, getOrCreateByUri(s, s.wsConfig), NoUri, o.from))

\* refreshWorkspacePreferenceEditor up to the await in getWorkspacePreferenceEditorWidget
refreshWorkspacePreferenceEditor(s, o) ==
    IF s.wsConfig = NoUri THEN finishWorkspace(s, NoWidget, o)
    ELSE Suspend(Created(s, s.wsConfig),
                 Task("ws", o.origin, getOrCreateByUri(s, s.wsConfig), NoUri, o.from))

\* PreferencesEditorsContainer.onAfterAttach up to its first await
ECOnAfterAttach(s) ==
    Suspend(Created(s, UserUri),
            Task("user", "attach", getOrCreateByUri(s, UserUri), NoUri, ""))

\* PreferencesEditorsContainer.onCloseRequest
RECURSIVE CloseAll(_, _)
CloseAll(s, ws) ==
    IF Len(ws) = 0 THEN s ELSE CloseAll(closeWidget(s, Head(ws)), Tail(ws))

ECOnCloseRequest(s) == CloseAll(s, s.dock)

\* PreferencesEditorsContainer.dispose
ECDispose(s) == [CloseAll(s, s.dock) EXCEPT !.ecState = "disposed"]

\* PreferencesTreeWidget close / dispose: its emitter goes with it
TreeClose(s) ==
    IF s.treeState = "none" THEN s
    ELSE [s EXCEPT !.treeState = "closed", !.listeners = @ \ {TreeListener}]

\* PreferencesContainer.dispose
dispose(s) ==
    IF s.pcDisposed THEN s
    ELSE LET s1 == [s EXCEPT !.pcDisposed = TRUE]
             \* super.dispose(): the children are disposed with the layout
             s2 == IF "tree" \in s1.children THEN TreeClose(s1) ELSE s1
             s3 == IF "editors" \in s2.children THEN ECDispose(s2) ELSE s2
             s4 == [s3 EXCEPT !.children = {}]
             \* toDispose.dispose(): the Editors Container and the listeners pushed
             s5 == IF s4.ecState \in {"created", "attached"} THEN ECDispose(s4) ELSE s4
         IN [s5 EXCEPT !.listeners = @ \ ToDisposeListeners]

\* PreferencesContainer.onCloseRequest
onCloseRequest(s) ==
    LET s1 == [TreeClose(s) EXCEPT !.pcClosing = TRUE] IN
    IF s1.ecState = "none" THEN Throw(s1)
    ELSE LET s2 == ECOnCloseRequest(s1)
             s3 == [s2 EXCEPT !.children = @ \ {"editors"},
                              !.ecState = IF @ = "attached" THEN "created" ELSE @]
         IN dispose(Log(s3, Ev("closedChildren")))

(***************************************************************************)
(* PreferencesTreeWidget.initializeModel.  A string is the sequence of its *)
(* characters; the combined schema is the sequence of its keys in the      *)
(* order for..in enumerates them.                                          *)
(***************************************************************************)
SchemaKeys == {<<"e", "d", "i", "t", "o", "r", ".", "f", "o", "n", "t", "S", "i", "z", "e">>,
               <<"e", "d", "i", "t", "o", "r", ".", "t", "a", "b", "S", "i", "z", "e">>,
               <<"f", "i", "l", "e", "s", ".", "e", "x", "c", "l", "u", "d", "e">>,
               <<"e", "d", "i", "t", "o", "r", ".", "t", "a", "b", "-", "S", "i", "z", "e">>,
               <<"f", "i", "-", "l", "e", "s", ".", "w", "a", "t", "c", "h">>,
               <<"l", "a", "u", "n", "c", "h">>,
               <<"l", "a", "u", "n", "c", "h", ".", "v", "e", "r", "s", "i", "o", "n">>}

\* preferenceConfigs.isSectionName
SectionNames == {<<"l", "a", "u", "n", "c", "h">>}
isSectionName(property) == property \in SectionNames

Lower == <<"a", "b", "c", "d", "e", "f", "g", "h", "i", "j", "k", "l", "m",
           "n", "o", "p", "q", "r", "s", "t", "u", "v", "w", "x", "y", "z">>
Upper == <<"A", "B", "C", "D", "E", "F", "G", "H", "I", "J", "K", "L", "M",
           "N", "O", "P", "Q", "R", "S", "T", "U", "V", "W", "X", "Y", "Z">>
Punctuation == {".", "-"}

\* The duplicate-free key lists of at most MaxKeys keys.
RECURSIVE KeyLists(_)
KeyLists(n) ==
    IF n = 0 THEN { <<>> }
    ELSE KeyLists(n - 1) \cup
         { Append(l, k) : l \in { m \in KeyLists(n - 1) : Len(m) = n - 1 },
                          k \in SchemaKeys }
Schemas == { l \in KeyLists(MaxKeys) : Cardinality(Range(l)) = Len(l) }

\* String.indexOf('.') + 1 (0: no dot)
DotAt(str) ==
    IF \E i \in 1..Len(str) : str[i] = "."
    THEN CHOOSE i \in 1..Len(str) : str[i] = "." /\ \A j \in 1..(i - 1) : str[j] # "."
    ELSE 0

\* property.substring(0, property.indexOf('.')): empty without a dot
GroupPrefix(property) ==
    IF DotAt(property) = 0 THEN <<>> ELSE SubSeq(property, 1, DotAt(property) - 1)

\* property.split('.').length > 1
HasDot(property) == DotAt(property) # 0

\* property.split('.', 1)[0]
FirstSegment(property) ==
    IF DotAt(property) = 0 THEN property ELSE SubSeq(property, 1, DotAt(property) - 1)

\* property.substring(property.indexOf('.') + 1)
AfterDot(property) == SubSeq(property, DotAt(property) + 1, Len(property))

\* Rank of a letter in the collation, whatever its case (0: no letter).
Rank(c) ==
    IF \E i \in 1..Len(Lower) : Lower[i] = c \/ Upper[i] = c
    THEN CHOOSE i \in 1..Len(Lower) : Lower[i] = c \/ Upper[i] = c
    ELSE 0
IsUpper(c) == \E i \in 1..Len(Upper) : Upper[i] = c

\* ignorePunctuation: punctuation does not take part in the comparison
Letters(str) == SelectSeq(str, LAMBDA c : c \notin Punctuation)

\* Lexicographic comparison of two sequences of numbers: -1, 0 or 1.
RECURSIVE CompareNumbers(_, _, _)
CompareNumbers(x, y, i) ==
    IF i > Len(x) /\ i > Len(y) THEN 0
    ELSE IF i > Len(x) THEN 0 - 1
    ELSE IF i > Len(y) THEN 1
    ELSE IF x[i] < y[i] THEN 0 - 1
    ELSE IF x[i] > y[i] THEN 1
    ELSE CompareNumbers(x, y, i + 1)

\* sort(a, b): a.localeCompare(b, undefined, { ignorePunctuation: true }).  The
\* letters decide first; between strings with the same letters the case
\* decides, lower case first.
localeCompare(a, b) ==
    LET x == Letters(a)
        y == Letters(b)
        primary == CompareNumbers([i \in 1..Len(x) |-> Rank(x[i])],
                                  [i \in 1..Len(y) |-> Rank(y[i])], 1)
    IN IF primary # 0 THEN primary
       ELSE CompareNumbers([i \in 1..Len(x) |-> IF IsUpper(x[i]) THEN 1 ELSE 0],
                           [i \in 1..Len(y) |-> IF IsUpper(y[i]) THEN 1 ELSE 0], 1)

\* The strings the widget compares: the keys and their group names.
KeyStrings == SchemaKeys \cup { GroupPrefix(k) : k \in SchemaKeys }
Collation == [a \in KeyStrings |-> [b \in KeyStrings |-> localeCompare(a, b)]]

\* sort (633-635)
sort(a, b) == Collation[a][b]

\* Array.prototype.sort with the comparator sort: stable, equal elements stay
\* in the order they had.
RECURSIVE InsertSorted(_, _)
InsertSorted(sorted, x) ==
    IF Len(sorted) = 0 THEN <<x>>
    ELSE IF sort(sorted[Len(sorted)], x) <= 0 THEN Append(sorted, x)
    ELSE Append(InsertSorted(SubSeq(sorted, 1, Len(sorted) - 1), x), sorted[Len(sorted)])

RECURSIVE SortFrom(_, _, _)
SortFrom(list, sorted, i) ==
    IF i > Len(list) THEN sorted
    ELSE SortFrom(list, InsertSorted(sorted, list[i]), i + 1)

Sorted(list) == SortFrom(list, <<>>, 1)

\* lines 557-565: the group names of the properties are added to the Set
RECURSIVE AddGroupNames(_, _, _)
AddGroupNames(names, properties, i) ==
    IF i > Len(properties) THEN names
    ELSE LET property == properties[i]
             group == GroupPrefix(property)
         IN AddGroupNames(IF Len(property) > 0 /\ HasDot(property) /\ group \notin Range(names)
                          THEN Append(names, group) ELSE names,
                          properties, i + 1)

\* As GroupProperties, without the isSectionName test of line 589.
GroupPropertiesWithSections(properties, group) ==
    SelectSeq(properties, LAMBDA property : FirstSegment(property) = group)

\* lines 587-592: the properties of a group, in enumeration order
GroupProperties(properties, group) ==
    SelectSeq(properties, LAMBDA property :
        FirstSegment(property) = group /\ ~isSectionName(property))

\* As Capitalized, without the substring calls: group.toLocaleUpperCase().
UpperCased(group) ==
    [i \in 1..Len(group) |-> IF Rank(group[i]) # 0 THEN Upper[Rank(group[i])] ELSE group[i]]

\* group.toLocaleUpperCase().substring(0, 1) + group.substring(1)
Capitalized(group) ==
    IF Len(group) = 0 THEN group
    ELSE <<IF Rank(group[1]) # 0 THEN Upper[Rank(group[1])] ELSE group[1]>>
         \o SubSeq(group, 2, Len(group))

\* lines 595-603, 605-615: the node of a group with its property nodes
GroupNode(properties, group) ==
    LET props == GroupProperties(properties, group)
        sorted == Sorted(props)
    IN [id |-> group \o <<"-", "i", "d">>,
        name |-> Capitalized(group) \o <<" ", "(", ToString(Len(props)), ")">>,
        children |-> [i \in 1..Len(props) |->
                         [id |-> sorted[i], name |-> AfterDot(sorted[i])]]]

\* lines 570, 581-617: the group nodes, in the sorted order of the group names
GroupNodes(properties, names) ==
    LET groupNames == Sorted(names)
    IN [i \in 1..Len(names) |-> GroupNode(properties, groupNames[i])]

(***************************************************************************)
(* The initial state: the container is constructed and not attached; the   *)
(* workspace is any the workspace service can report (a saved workspace    *)
(* has a workspace file, hence a config URI).                              *)
(***************************************************************************)
EnvOk(cfg, sv) == sv => cfg # NoUri

Constructed ==
    /\ wUri = [w \in WidgetIds |-> NoUri]
    /\ wScope = [w \in WidgetIds |-> NoScope]
    /\ wDirty = [w \in WidgetIds |-> FALSE]
    /\ wDisposed = [w \in WidgetIds |-> FALSE]
    /\ ecState = "none"
    /\ dock = <<>>
    /\ userW = NoWidget /\ wsW = NoWidget /\ folderW = NoWidget
    /\ initCount = 0
    /\ treeState = "none"
    /\ activeFolderUri = NoUri
    /\ pcStage = "uninitialized"
    /\ pcDisposed = FALSE
    /\ pcClosing = FALSE
    /\ children = {}
    /\ listeners = {}
    /\ currentEditor = NoWidget
    /\ editors = <<>>
    /\ preferenceScope = "User"
    /\ deferredResolved = FALSE
    /\ waiting = {}
    /\ tasks = {}
    /\ effects = <<>>
    /\ folderCalls = NoCalls

\* The tree widget is constructed and not attached.
TreeConstructed ==
    /\ preferencesGroupNames = <<>>
    /\ treeRoot = <<>>
    /\ treeAttached = FALSE

Init ==
    /\ roots \in RootLists
    /\ wsConfig \in WsUris \cup {NoUri}
    /\ saved \in BOOLEAN
    /\ EnvOk(wsConfig, saved)
    /\ events = MaxEvents
    /\ Constructed
    /\ combinedSchema = <<>>
    /\ TreeConstructed
    /\ saveableAutoSave = [uri \in AllUris |-> "off"]

\* The container is constructed in a saved workspace of two folders.
InitSaved ==
    /\ roots = <<folderA, folderB>>
    /\ wsConfig = <<"w1.theia-workspace">>
    /\ saved = TRUE
    /\ events = MaxEventsSaved
    /\ Constructed
    /\ combinedSchema = <<>>
    /\ TreeConstructed
    /\ saveableAutoSave = [uri \in AllUris |-> "off"]

\* What the program still refers to.
Referenced(s) ==
    Range(s.dock) \cup Range(s.editors) \cup {s.currentEditor, s.userW, s.wsW, s.folderW}
    \cup { t.w : t \in s.tasks }

\* A disposed widget nothing refers to is garbage: its name is free again.
Collect(s) ==
    LET garbage == { w \in WidgetIds : s.wDisposed[w] /\ w \notin Referenced(s) } IN
    [s EXCEPT !.folderCalls = IF PendingFolder(s.tasks) = {} THEN NoCalls ELSE @,
              !.wUri = [w \in WidgetIds |-> IF w \in garbage THEN NoUri ELSE @[w]],
              !.wScope = [w \in WidgetIds |-> IF w \in garbage THEN NoScope ELSE @[w]],
              !.wDirty = [w \in WidgetIds |-> IF w \in garbage THEN FALSE ELSE @[w]],
              !.wDisposed = [w \in WidgetIds |-> IF w \in garbage THEN FALSE ELSE @[w]]]

\* A step that ends in the record s, unless s ran out of the bounds.
Step(s) == ~s.blocked /\ Commit(Collect(s))

\* A resumed call is no longer suspended.
Resume(t, e) == [Begin(e) EXCEPT !.tasks = @ \ {t}]

(***************************************************************************)
(* PreferencesContainer.onAfterAttach, cut at its two awaits.              *)
(***************************************************************************)
PCAttach ==
    /\ pcStage = "uninitialized" /\ ~pcDisposed
    /\ Step([Begin(Ev("onAfterAttach")) EXCEPT !.pcStage = "awaitTree"])

\* the tree widget is resolved: its listener is wired
PCTreeResolved ==
    /\ pcStage = "awaitTree"
    /\ Step([Begin(Ev("treeResolved")) EXCEPT !.treeState = "created",
                                              !.listeners = @ \cup {TreeListener},
                                              !.pcStage = "awaitEditors"])

\* lines 150-188: the Editors Container is resolved, the listeners are wired,
\* the children are added.  addWidget on a disposed split panel throws.
onAfterAttachRest(s) ==
    LET s1 == ECactivatePreferenceEditor([s EXCEPT !.ecState = "created"], s.preferenceScope)
        s2 == [s1 EXCEPT !.listeners = @ \cup ToDisposeListeners]
    IN IF s2.pcDisposed THEN [Throw(s2) EXCEPT !.pcStage = "failed"]
       ELSE ECOnAfterAttach([s2 EXCEPT !.children = {"tree", "editors"},
                                       !.ecState = "attached",
                                       !.pcStage = "attached"])

PCEditorsResolved ==
    /\ pcStage = "awaitEditors"
    /\ Step(onAfterAttachRest(Begin(Ev("editorsResolved"))))

(***************************************************************************)
(* PreferencesEditorsContainer: the resumptions of its suspended calls.    *)
(***************************************************************************)
\* variant: the init event is fired as soon as the User editor is added
userOpenedInitFirst(s, t) ==
    LET s1 == [s EXCEPT !.wScope[t.w] = "User", !.userW = t.w] IN
    IF s1.ecState = "disposed" THEN Throw(s1)
    ELSE refreshWorkspacePreferenceEditor(fireInit(addWidget(s1, t.w, NoWidget)), O("attach", ""))

\* onAfterAttach after getUserPreferenceEditorWidget
userOpened(s, t) ==
    LET s1 == [s EXCEPT !.wScope[t.w] = "User", !.userW = t.w] IN
    IF s1.ecState = "disposed" THEN Throw(s1)
    ELSE refreshWorkspacePreferenceEditor(addWidget(s1, t.w, NoWidget), O("attach", ""))

UserOpened ==
    \E t \in tasks :
        /\ t.kind = "user"
        /\ Step(userOpened(Resume(t, EvW("userOpened", t.w)), t))

\* refreshWorkspacePreferenceEditor after getWorkspacePreferenceEditorWidget
wsOpened(s, t) ==
    finishWorkspace([s EXCEPT !.wScope[t.w] = "Workspace"], t.w, O(t.origin, t.from))

WsOpened ==
    \E t \in tasks :
        /\ t.kind = "ws"
        /\ Step(wsOpened(Resume(t, EvW("wsOpened", t.w)), t))

\* getFoldersPreferencesEditor after getFolderSettingsUri: the editor is asked for
folderUriResolved(s, t) ==
    LET settingsUri == getFolderSettingsUri(t.target) IN
    IF settingsUri = NoUri
    THEN finishFolders(s, NoWidget, t.target, O(t.origin, t.from))
    ELSE Suspend(Created(s, settingsUri),
                 Task("folderOpen", t.origin, getOrCreateByUri(s, settingsUri),
                      t.target, t.from))

FolderUriResolved ==
    \E t \in tasks :
        /\ t.kind = "folderUri"
        /\ Step(folderUriResolved(Resume(t, Ev("folderUriResolved")), t))

\* refreshFoldersPreferencesEditorWidget after getFoldersPreferencesEditor
folderOpened(s, t) ==
    finishFolders([s EXCEPT !.wScope[t.w] = "Folder"], t.w, t.target, O(t.origin, t.from))

FolderOpened ==
    \E t \in tasks :
        /\ t.kind = "folderOpen"
        /\ Step(folderOpened(Resume(t, EvW("folderOpened", t.w)), t))

\* clickableTextCallback(folderUriStr) of a Folder editor's tab, up to its await
FolderClick ==
    \E w \in Range(dock), f \in Range(roots) :
        /\ wScope[w] = "Folder" /\ ~wDisposed[w] /\ ecState = "attached"
        /\ Step(Suspend(saveEditor(Input(EvW("folderClick", w)), w),
                        Task("click", "click", w, f, "")))

\* clickableTextCallback after the save
FolderClickSaved ==
    \E t \in tasks :
        /\ t.kind = "click"
        /\ Step(refreshFoldersPreferencesEditorWidget(
                    Resume(t, EvW("folderClickSaved", t.w)), t.target, O("click", "")))

\* onUpdateRequest: the dock panel reports its selected widget
UpdateRequest ==
    \E w \in Range(dock) :
        /\ ecState = "attached"
        /\ LET s == Input(EvW("onEditorChanged", w)) IN
           Step(IF Wired(s, "onEditorChanged") THEN onEditorChangedHandler(s, w) ELSE s)

(***************************************************************************)
(* The environment: the workspace service, the user, the shell.            *)
(***************************************************************************)
\* A change of the workspace that no listener hears is the same as starting in
\* the changed workspace (Init draws every workspace), so the workspace changes
\* only while the container listens.
\* the workspace file changes: onWorkspaceLocationChanged fires
WorkspaceLocationChanged ==
    \E cfg \in WsUris \cup {NoUri}, sv \in BOOLEAN :
        /\ cfg # wsConfig /\ EnvOk(cfg, sv)
        /\ Wired(S, "onWorkspaceLocationChanged")
        /\ Step(refreshWorkspacePreferenceEditor(
                    [Input(Ev("onWorkspaceLocationChanged")) EXCEPT !.wsConfig = cfg,
                                                                    !.saved = sv],
                    O("location", "")))

\* the roots change: onWorkspaceChanged fires
WorkspaceChanged ==
    \E new \in RootLists :
        /\ new # roots
        /\ Wired(S, "onWorkspaceChanged")
        /\ Step(refreshFoldersPreferencesEditor(
                    [Input(Ev("onWorkspaceChanged")) EXCEPT !.roots = new],
                    O("roots", IF roots = <<>> /\ new = <<folderA>> THEN "emptyToA" ELSE "other")))

\* the user types into an open editor
EditDocument ==
    \E w \in Range(dock) :
        /\ ~wDisposed[w] /\ ~wDirty[w] /\ ecState = "attached"
        /\ Step([Input(EvW("edit", w)) EXCEPT !.wDirty[w] = TRUE])

\* the user picks a value in the tree's context menu
PreferenceSelected ==
    \E key \in Keys, value \in Values :
        /\ Wired(S, TreeListener) /\ treeState = "created" /\ "tree" \in children
        /\ Step(onPreferenceSelectedHandler(
                    Input(Eff("onPreferenceSelected", NoWidget, key, value, NoScope, NoUri)),
                    key, value))

\* the shell saves the container
Save ==
    /\ Len(editors) > 0
    /\ Step(save(Input(Ev("saveAll"))))

\* activatePreferenceEditor(scope) is called: it waits for deferredEditors
ActivatePreferenceEditor ==
    \E scope \in Scopes :
        /\ scope \notin waiting /\ Cardinality(waiting) < MaxWaiting
        /\ Step([Input(Eff("activatePreferenceEditor", NoWidget, "", "", scope, NoUri))
                    EXCEPT !.waiting = @ \cup {scope}])

\* variant: the call does not wait
deferredEditorsNotAwaited(s) == TRUE

\* await this.deferredEditors.promise: the call goes on once the promise is resolved
deferredEditorsSettled(s) == s.deferredResolved

activateResumed(s, scope) ==
    doActivatePreferenceEditor([s EXCEPT !.waiting = @ \ {scope}], scope)

ActivateResumed ==
    \E scope \in waiting :
        /\ deferredEditorsSettled(S)
        /\ Step(activateResumed(Begin(Eff("activateResumed", NoWidget, "", "", scope, NoUri)), scope))

\* the shell closes the container
CloseRequest ==
    /\ ~pcDisposed
    /\ Step(onCloseRequest(Input(Ev("onCloseRequest"))))

\* dispose() is called
Dispose ==
    /\ Step(dispose(Input(Ev("dispose"))))

Next ==
    \/ PCAttach \/ PCTreeResolved \/ PCEditorsResolved
    \/ UserOpened \/ WsOpened \/ FolderUriResolved \/ FolderOpened
    \/ FolderClick \/ FolderClickSaved \/ UpdateRequest
    \/ WorkspaceLocationChanged \/ WorkspaceChanged
    \/ EditDocument \/ PreferenceSelected \/ Save
    \/ ActivatePreferenceEditor \/ ActivateResumed
    \/ CloseRequest \/ Dispose

Spec == Init /\ [][Next]_vars

SpecSaved == InitSaved /\ [][Next]_vars

\* The container is constructed in a saved workspace of one folder; the
\* documents of that workspace have any autoSave settings.
InitAutoSave ==
    /\ roots = <<folderA>>
    /\ wsConfig = <<"w1.theia-workspace">>
    /\ saved = TRUE
    /\ events = MaxEventsAutoSave
    /\ Constructed
    /\ combinedSchema = <<>>
    /\ TreeConstructed
    /\ saveableAutoSave \in [AllUris -> {"on", "off"}]
    /\ \A uri \in AllUris :
          uri \notin {UserUri, wsConfig, getFolderSettingsUri(folderA)}
              => saveableAutoSave[uri] = "off"

SpecAutoSave == InitAutoSave /\ [][Next]_vars

(***************************************************************************)
(* The tree widget on its own: it is attached in any combined schema and   *)
(* rebuilds its model whenever the schema changes.                         *)
(***************************************************************************)
ContainerVars ==
    <<roots, saved, wsConfig, wUri, wScope, wDirty, wDisposed, ecState, dock,
      userW, wsW, folderW, initCount, treeState, activeFolderUri, pcStage,
      pcDisposed, pcClosing, children, listeners, currentEditor, editors,
      preferenceScope, deferredResolved, waiting, tasks, events, effects,
      folderCalls, saveableAutoSave>>

InitTree ==
    /\ roots = <<>> /\ wsConfig = NoUri /\ saved = FALSE
    /\ events = 0
    /\ Constructed
    /\ combinedSchema \in Schemas
    /\ TreeConstructed
    /\ saveableAutoSave = [uri \in AllUris |-> "off"]

\* initializeModel (555-620) with the properties the schema provider returns
initializeModel(properties) ==
    LET names == AddGroupNames(preferencesGroupNames, properties, 1) IN
    /\ preferencesGroupNames' = names
    /\ treeRoot' = GroupNodes(properties, names)

\* The schemas one contribution away: a key is removed, or a key is added at
\* some place of the enumeration.
SchemaChanges(properties) ==
    { SubSeq(properties, 1, i - 1) \o SubSeq(properties, i + 1, Len(properties)) :
        i \in 1..Len(properties) }
    \cup
    { SubSeq(properties, 1, i) \o <<k>> \o SubSeq(properties, i + 1, Len(properties)) :
        i \in { j \in 0..Len(properties) : Len(properties) < MaxKeys },
        k \in SchemaKeys \ Range(properties) }

\* PreferencesTreeWidget.onAfterAttach (501-507)
TreeOnAfterAttach ==
    /\ ~treeAttached
    /\ treeAttached' = TRUE
    /\ initializeModel(combinedSchema)
    /\ UNCHANGED combinedSchema
    /\ UNCHANGED ContainerVars

\* The schema changes while the widget listens: the listener of
\* onDidPreferenceSchemaChanged (503-505) rebuilds the model.
SchemaChanged ==
    \E new \in SchemaChanges(combinedSchema) :
        /\ treeAttached
        /\ combinedSchema' = new
        /\ initializeModel(new)
        /\ UNCHANGED treeAttached
        /\ UNCHANGED ContainerVars

NextTree == TreeOnAfterAttach \/ SchemaChanged

SpecTree == InitTree /\ [][NextTree]_vars

(***************************************************************************)
(* Properties.                                                             *)
(***************************************************************************)
\* How many entries of the log are calls of op.
Count(log, op) == Cardinality({ i \in 1..Len(log) : log[i].op = op })
\* The step that led here handled the event op.
Handled(log, op) == Len(log) > 0 /\ log[1].op = op
\* Entry i of the log comes before every entry that is a call of one of ops.
Before(log, i, ops) == \A j \in 1..Len(log) : log[j].op \in ops => i < j
\* At least one tracked editor is dirty.
AnyTrackedDirty == \E i \in 1..Len(editors) : wDirty[editors[i]]

\* C1: a preference-selected event that arrives while at least one tracked
\* editor is dirty issues no preferenceService.set call and exactly one
\* warning, whatever key and value were selected.
C1_DirtySelectionWarns ==
    [][(Handled(effects', "onPreferenceSelected") /\ AnyTrackedDirty)
         => (Count(effects', "set") = 0 /\ Count(effects', "warn") = 1)]_vars

C1_Witness ==
    /\ Handled(effects, "onPreferenceSelected")
    /\ AnyTrackedDirty
    /\ Count(effects, "warn") = 1

\* C2: an editor-changed event carrying editor B while the current editor A
\* has another URI than B calls A.saveable.save() before preferenceScope and
\* currentEditor are set to B, also when A is dirty.
C2_SaveBeforeSwitch ==
    [][(/\ Handled(effects', "onEditorChanged")
        /\ Wired(S, "onEditorChanged")
        /\ currentEditor # NoWidget
        /\ wUri[currentEditor] # wUri[effects'[1].w])
         => (/\ \E i \in 1..Len(effects') :
                    /\ effects'[i] = EvSave(currentEditor, wDirty[currentEditor])
                    /\ Before(effects', i, {"setScope", "setCurrentEditor"})
             /\ Count(effects', "save") = 1
             /\ Count(effects', "setScope") = 1
             /\ Count(effects', "setCurrentEditor") = 1
             /\ ~wDirty'[currentEditor]
             /\ currentEditor' = effects'[1].w
             /\ preferenceScope' = wScope[effects'[1].w])]_vars

\* A dirty editor was current, another one was selected: the dirty one is saved.
C2_Witness ==
    /\ Handled(effects, "onEditorChanged")
    /\ currentEditor = effects[1].w
    /\ \E i \in 1..Len(effects) :
           /\ effects[i].op = "save" /\ effects[i].key = "dirty"
           /\ effects[i].w # currentEditor

\* C3: the aggregate dirty flag of the Preferences Container is true exactly
\* when at least one tracked editor is dirty (false without tracked editors).
C3_DirtyIffAnyDirty == dirtyOf(S) <=> AnyTrackedDirty

\* Three tracked editors with dirty states (false, false, true).
C3_Witness ==
    /\ Len(editors) = 3
    /\ ~wDirty[editors[1]] /\ ~wDirty[editors[2]] /\ wDirty[editors[3]]
    /\ dirtyOf(S)

\* The open editor widgets of a scope.
OpenOfScope(scope) == { w \in Range(dock) : wScope[w] = scope }
\* The folder a Folder-scope editor targets.
TargetFolder(w) == parent(parent(wUri[w]))
\* The log says that the listener of a roots change from [] to [folderA] is done.
EmptyToADone == \E i \in 1..Len(effects) : effects[i] = EvRoots("rootsHandled", "emptyToA")
\* The step that led here handled a roots change to [] to its end.
ToEmptyDone ==
    /\ Handled(effects, "onWorkspaceChanged") /\ roots = <<>>
    /\ \E i \in 1..Len(effects) : effects[i].op = "rootsHandled"

\* C4: in every reachable state at most one editor widget is open per scope
\* (User, Workspace, Folder) and no widget is open twice: replacing the
\* Folder editor or the Workspace editor closes the old one.
C4_OnePerScope ==
    /\ \A scope \in Scopes : Cardinality(OpenOfScope(scope)) <= 1
    /\ Cardinality(Range(dock)) = Len(dock)

\* The Folder editor has just been replaced: the old one is closed, the new one open.
C4_Witness ==
    /\ \E i \in 1..Len(effects) : effects[i].op = "closeEditor" /\ effects[i].scope = "Folder"
    /\ \E i \in 1..Len(effects) : effects[i].op = "onFolderPreferenceEditorUriChanged"
    /\ folderW \in Range(dock)
    /\ Cardinality(OpenOfScope("Folder")) = 1

OwedSet(e) == Eff("set", currentEditor, e.key, e.value, wScope[currentEditor], wUri[currentEditor])

\* C6 as stated: a preference-selected event that arrives while no tracked
\* editor is dirty issues exactly one preferenceService.set call, with the
\* selected key and value and the current editor's scope and URI.
C6_AsStated ==
    [][(Handled(effects', "onPreferenceSelected") /\ ~AnyTrackedDirty)
         => (/\ Count(effects', "set") = 1
             /\ \E i \in 1..Len(effects') : effects'[i] = OwedSet(effects'[1]))]_vars

\* C6, amended: while no tracked editor is dirty, a preference-selected event
\* issues exactly one preferenceService.set call with the selected key and
\* value and the current editor's scope and URI if a current editor is set;
\* without a current editor it issues no call and no warning.
C6_CleanSelectionWrites ==
    [][(Handled(effects', "onPreferenceSelected") /\ ~AnyTrackedDirty)
         => IF currentEditor # NoWidget
            THEN /\ Count(effects', "set") = 1
                 /\ Count(effects', "warn") = 0
                 /\ \E i \in 1..Len(effects') : effects'[i] = OwedSet(effects'[1])
            ELSE Len(effects') = 1]_vars

\* A write for the Workspace editor.
C6_Witness ==
    /\ Handled(effects, "onPreferenceSelected")
    /\ ~AnyTrackedDirty
    /\ currentEditor # NoWidget /\ wScope[currentEditor] = "Workspace"
    /\ \E i \in 1..Len(effects) : effects[i] = OwedSet(effects[1])

\* The folder the tree widget's activeFolderUri lies in (it holds the URI of
\* the folder's settings file).
TreeFolder == IF activeFolderUri = NoUri THEN NoUri ELSE parent(parent(activeFolderUri))
\* The step that led here ended the handling of a roots change or of a folder switch.
FolderHandlingDone ==
    \E i \in 1..Len(effects) : effects[i].op \in {"rootsHandled", "clickHandled"}

\* C7 as stated: whenever the handling of a folder switch, of a roots change
\* or of a folder-editor close is complete, the tree widget's active folder
\* is the active folder of the Editors Container (both undefined when no
\* Folder-scope editor is open).
C7_AsStated ==
    (/\ FolderHandlingDone
     /\ treeState = "created" /\ ecState = "attached" /\ ~pcDisposed
     /\ Wired(S, "onFolderPreferenceEditorUriChanged"))
      => TreeFolder = activeFolder(S)

\* C8: the promise of getTrackableWidgets() is unresolved as long as the
\* Editors Container has not fired its init event; the step that resolves it
\* leaves the tracked-editor list equal to the container's widgets; and a
\* call of activatePreferenceEditor(scope) changes nothing before the init
\* event: it only waits, and goes on after the event.
C8_ResolvedAfterInit ==
    /\ [](initCount = 0 => ~deferredResolved)
    /\ [][/\ (~deferredResolved /\ deferredResolved')
                => (/\ initCount' > 0
                    /\ Range(editors') = Range(dock')
                    /\ Len(editors') = Len(dock'))
          /\ (Handled(effects', "activatePreferenceEditor") /\ initCount = 0)
                => (/\ Len(effects') = 1
                    /\ preferenceScope' = preferenceScope
                    /\ currentEditor' = currentEditor
                    /\ editors' = editors /\ dock' = dock)
          /\ Handled(effects', "activateResumed") => initCount > 0]_vars

\* A call of activatePreferenceEditor is waiting while the User editor is open
\* and the init event has not fired.
C8_Witness ==
    /\ waiting # {} /\ initCount = 0
    /\ userW \in Range(dock)
    /\ preferenceScope = "User" /\ "User" \notin waiting

\* The calls of saveable.save() on w in the log.
SavesOf(w) == { i \in 1..Len(effects) : effects[i].op = "save" /\ effects[i].w = w }

\* C9: PreferencesContainer.save() calls save once on every tracked editor,
\* dirty or not, and on no other editor.
C9_SaveAllTracked ==
    Handled(effects, "saveAll")
      => \A w \in WidgetIds :
            Cardinality(SavesOf(w)) = IF w \in Range(editors) THEN 1 ELSE 0

\* A dirty and a clean editor were saved.
C9_Witness ==
    /\ Handled(effects, "saveAll")
    /\ \E i, j \in 1..Len(effects) :
           /\ effects[i].op = "save" /\ effects[i].key = "dirty"
           /\ effects[j].op = "save" /\ effects[j].key = "clean"

\* C10 as stated: once the container is disposed it stays disposed, no
\* listener is wired and no child widget is added any more (also not by an
\* attach that was in flight); a close request that arrives after the attach
\* has started closes the tree widget and the Editors Container and leaves
\* the container disposed; dispose() on a disposed container changes nothing.
C10_AsStated ==
    [][/\ pcDisposed
          => (pcDisposed' /\ listeners' \subseteq listeners /\ children' \subseteq children)
       /\ (Handled(effects', "onCloseRequest") /\ pcStage # "uninitialized")
          => (pcDisposed' /\ treeState' # "created" /\ ecState' \in {"none", "disposed"})
       /\ (Handled(effects', "dispose") /\ pcDisposed)
          => (listeners' = listeners /\ children' = children /\ dock' = dock
              /\ ecState' = ecState /\ treeState' = treeState)]_vars


(***************************************************************************)
(* The tree model.                                                         *)
(***************************************************************************)
\* The group a group node stands for: its id without the suffix '-id'.
NodeGroup(node) == SubSeq(node.id, 1, Len(node.id) - 3)
NodesOfGroup(group) == { i \in 1..Len(treeRoot) : NodeGroup(treeRoot[i]) = group }
LeafIds(node) == { node.children[j].id : j \in 1..Len(node.children) }
LeafPlaces(key) ==
    { <<i, j>> \in (1..Len(treeRoot)) \X (1..MaxKeys) :
        j <= Len(treeRoot[i].children) /\ treeRoot[i].children[j].id = key }

\* C11: once the tree model is built, every schema key with a dot has its
\* first dot-segment as exactly one group node, every such key that is no
\* section name is a leaf exactly once and under exactly that group, and no
\* key that is a section name is a leaf of any group.
C11_GroupsAndLeaves ==
    treeAttached =>
        /\ \A key \in Range(combinedSchema) :
              HasDot(key) => Cardinality(NodesOfGroup(FirstSegment(key))) = 1
        /\ \A key \in Range(combinedSchema) :
              (HasDot(key) /\ ~isSectionName(key)) =>
                  /\ Cardinality(LeafPlaces(key)) = 1
                  /\ \A place \in LeafPlaces(key) :
                        NodeGroup(treeRoot[place[1]]) = FirstSegment(key)
        /\ \A i \in 1..Len(treeRoot) :
              \A key \in LeafIds(treeRoot[i]) : ~isSectionName(key)

\* A built tree whose schema holds the section name launch next to a key of the
\* group launch and a key of another group.
C11_Witness ==
    /\ treeAttached
    /\ \E key \in Range(combinedSchema) : isSectionName(key)
    /\ \E key \in Range(combinedSchema) :
          HasDot(key) /\ \E s \in Range(combinedSchema) : isSectionName(s) /\ FirstSegment(key) = s
    /\ Len(treeRoot) >= 2
    /\ \A i \in 1..Len(treeRoot) : Len(treeRoot[i].children) >= 1

\* C12: once the tree model is built, and after every schema change, the
\* groups of the group nodes are exactly the first dot-segments of the dotted
\* keys of the current combined schema.
C12_AsStated ==
    treeAttached =>
        { NodeGroup(treeRoot[i]) : i \in 1..Len(treeRoot) }
            = { FirstSegment(key) : key \in { k \in Range(combinedSchema) : HasDot(k) } }

\* The enumerations of the same keys, and the tree a newly constructed widget
\* builds from one of them.
Enumerations(properties) ==
    { [i \in 1..Len(properties) |-> properties[f[i]]] :
        f \in Permutations(1..Len(properties)) }
FirstTree(properties) == GroupNodes(properties, AddGroupNames(<<>>, properties, 1))

\* C13: the tree built on attach is the tree built from every other
\* enumeration order of the same schema keys: same order of the group nodes,
\* same order of the property nodes inside each group.
C13_AsStated ==
    [][TreeOnAfterAttach =>
          \A other \in Enumerations(combinedSchema) : FirstTree(other) = treeRoot']_vars

\* The upper-case form of one letter.
UpperCase(c) == IF \E i \in 1..Len(Lower) : Lower[i] = c
                THEN Upper[CHOOSE i \in 1..Len(Lower) : Lower[i] = c]
                ELSE c
ExampleKeys == {<<"e", "d", "i", "t", "o", "r", ".", "f", "o", "n", "t", "S", "i", "z", "e">>,
                <<"e", "d", "i", "t", "o", "r", ".", "t", "a", "b", "S", "i", "z", "e">>,
                <<"f", "i", "l", "e", "s", ".", "e", "x", "c", "l", "u", "d", "e">>}

\* C14: the label of every group node is the group name with its first
\* character in upper case, followed by ' (n)' with n the number of property
\* nodes under the node; the widget attached in the schema with the keys
\* editor.fontSize, editor.tabSize and files.exclude, in any enumeration order,
\* shows exactly the groups 'Editor (2)' and 'Files (1)', in that order.
C14_GroupLabels ==
    /\ [](treeAttached =>
            \A i \in 1..Len(treeRoot) :
                LET group == NodeGroup(treeRoot[i]) IN
                treeRoot[i].name =
                    (IF Len(group) = 0 THEN <<>> ELSE <<UpperCase(group[1])>> \o Tail(group))
                    \o <<" ", "(", ToString(Len(treeRoot[i].children)), ")">>)
    /\ [][(TreeOnAfterAttach /\ Range(combinedSchema) = ExampleKeys) =>
              [i \in 1..Len(treeRoot') |-> treeRoot'[i].name]
                  = << <<"E", "d", "i", "t", "o", "r", " ", "(", "2", ")">>,
                       <<"F", "i", "l", "e", "s", " ", "(", "1", ")">> >>]_vars

\* The tree built on attach from the three keys of the example.
C14_Witness ==
    /\ treeAttached
    /\ Range(combinedSchema) = ExampleKeys
    /\ Len(treeRoot) = 2
    /\ Len(treeRoot[1].children) = 2

(***************************************************************************)
(* The tracked editors.                                                    *)
(***************************************************************************)
NoDuplicates(seq) == \A i, j \in 1..Len(seq) : seq[i] = seq[j] => i = j

\* C15: handleEditorsChanged, called in any reachable state, leaves as tracked
\* editors exactly the widgets of the Editors Container, each once: first the
\* editors tracked before that are still in the container, in the order they
\* had, then the widgets not tracked before; and a step changes the list only
\* if it calls handleEditorsChanged.
C15_EditorsReconciled ==
    /\ [](LET after == handleEditorsChanged(S).editors
               kept == SelectSeq(editors, LAMBDA w : w \in Range(dock))
           IN /\ Range(after) = Range(dock)
              /\ NoDuplicates(after)
              /\ Len(after) >= Len(kept)
              /\ SubSeq(after, 1, Len(kept)) = kept
              /\ \A i \in (Len(kept) + 1)..Len(after) : after[i] \notin Range(editors))
    /\ [][editors' # editors => Count(effects', "onDidChangeTrackableWidgets") > 0]_vars

\* A state in which handleEditorsChanged has all three things to do: a tracked
\* editor has left the container, another one is still there, and the
\* container holds a widget that is not tracked yet.
C15_Witness ==
    /\ \E w \in Range(editors) : w \notin Range(dock)
    /\ \E w \in Range(editors) : w \in Range(dock)
    /\ \E w \in Range(dock) : w \notin Range(editors)

(***************************************************************************)
(* The attach of the Editors Container.                                    *)
(***************************************************************************)
\* The suspended calls that belong to onAfterAttach of the Editors Container.
AttachTasks(ts) == { t \in ts : t.origin = "attach" }
\* The place of a suspended call in onAfterAttach: the User editor, the
\* Workspace editor, the Folder editor (its settings file, then its widget).
AttachRank(t) ==
    CASE t.kind = "user" -> 1
      [] t.kind = "ws" -> 2
      [] t.kind = "folderUri" -> 3
      [] OTHER -> 4

FolderUriEvents(log) == Count(log, "onFolderPreferenceEditorUriChanged")

\* C17: when refreshFoldersPreferencesEditorWidget has its widget and the
\* target is the folder of the open Folder editor, the step leaves the Folder
\* editor, the widgets of the container and the tree widget's active folder as
\* they are and fires no folder-uri-changed event; when no Folder editor is
\* open or the target is another folder, the widget becomes the Folder editor
\* of the container, the previous one is gone, and the event is fired exactly
\* once; no other step fires the event.
C17_FolderRefreshFrame ==
    /\ [][\A t \in tasks \ tasks' :
              (t.kind = "folderOpen" /\ ecState # "disposed") =>
                  IF folderW # NoWidget /\ activeFolder(S) = t.target
                  THEN /\ folderW' = folderW
                       /\ dock' = dock
                       /\ activeFolderUri' = activeFolderUri
                       /\ FolderUriEvents(effects') = 0
                  ELSE /\ folderW' = t.w
                       /\ t.w \in Range(dock')
                       /\ folderW # NoWidget => folderW \notin Range(dock')
                       /\ FolderUriEvents(effects') = 1]_vars
    /\ [][FolderUriEvents(effects') > 0 =>
              \E t \in tasks \ tasks' :
                  /\ t.kind = "folderOpen"
                  /\ folderW = NoWidget \/ activeFolder(S) # t.target]_vars

\* The widget arrived for the folder whose editor is open: nothing was done.
C17_Witness ==
    /\ Handled(effects, "folderOpened")
    /\ folderW # NoWidget
    /\ effects[1].w = folderW
    /\ FolderUriEvents(effects) = 0
    /\ folderW \in Range(dock)

(***************************************************************************)
(* The listeners of the workspace service.                                 *)
(***************************************************************************)
\* The steps of the listener of origin: the step that delivers its event and
\* the steps that resume one of its suspended calls.
ListenerStep(origin, event) ==
    \/ Handled(effects', event)
    \/ \E t \in tasks \ tasks' : t.origin = origin
\* The calls the step has suspended for the listener of origin.
Suspended(origin) == { t \in tasks' \ tasks : t.origin = origin }
\* The widgets of the container that are no Folder editor, in their order.
NotFolder(ws, scopeOf) == SelectSeq(ws, LAMBDA w : scopeOf[w] # "Folder")

\* C18: the location listener refreshes the Workspace editor, then the Folder
\* editor, and recomputes the tracked editors in the step that ends the second
\* refresh and in no earlier step of its own; the roots listener never asks
\* for a Workspace editor and leaves the User and the Workspace editor of the
\* container as they are.
C18_ListenersInOrder ==
    /\ [][\A t \in tasks \ tasks' : t.origin = "location" =>
              \A n \in Suspended("location") : AttachRank(n) > AttachRank(t)]_vars
    /\ [][(ListenerStep("location", "onWorkspaceLocationChanged")
              /\ Suspended("location") # {})
              => /\ Count(effects', "onDidChangeTrackableWidgets") = 0
                 /\ Count(effects', "locationHandled") = 0
                 /\ editors' = editors]_vars
    /\ [][Count(effects', "locationHandled") > 0
              => /\ ListenerStep("location", "onWorkspaceLocationChanged")
                 /\ Suspended("location") = {}
                 /\ effects'[Len(effects')].op = "locationHandled"
                 /\ Count(effects', "onDidChangeTrackableWidgets") > 0
                 /\ Range(editors') = Range(dock')]_vars
    /\ [][ListenerStep("roots", "onWorkspaceChanged")
              => /\ \A n \in Suspended("roots") : n.kind # "ws"
                 /\ userW' = userW
                 /\ wsW' = wsW
                 /\ NotFolder(dock', wScope') = NotFolder(dock, wScope)]_vars

\* The location listener has run to its end through both refreshes: the step
\* that added the Folder editor recomputed the tracked editors last.
C18_Witness ==
    /\ Handled(effects, "folderOpened")
    /\ Count(effects, "locationHandled") = 1
    /\ wsW \in Range(dock) /\ folderW \in Range(dock)
    /\ editors = dock

(***************************************************************************)
(* The aggregate autoSave.                                                 *)
(***************************************************************************)
\* The autoSave setting of a tracked editor.
AutoSaveOfEditor(w) == saveableAutoSave[wUri[w]]

\* C19: in every reachable state the autoSave of the Preferences Container is
\* 'on' if at least one tracked editor has autoSave 'on', and 'off' otherwise,
\* in particular when no editor is tracked.
C19_AutoSaveIffAnyOn ==
    /\ autoSaveOf(S) \in {"on", "off"}
    /\ autoSaveOf(S) = "on" <=> \E w \in Range(editors) : AutoSaveOfEditor(w) = "on"
    /\ Len(editors) = 0 => autoSaveOf(S) = "off"

\* Three tracked editors with autoSave (off, off, on).
C19_Witness ==
    /\ Len(editors) = 3
    /\ AutoSaveOfEditor(editors[1]) = "off"
    /\ AutoSaveOfEditor(editors[2]) = "off"
    /\ AutoSaveOfEditor(editors[3]) = "on"
    /\ autoSaveOf(S) = "on"

(***************************************************************************)
(* Attach without a workspace config, without roots, or unsaved.           *)
(***************************************************************************)
\* The attach of the Editors Container has begun and none of its calls is
\* suspended any more.
AttachEnded == userW # NoWidget /\ AttachTasks(tasks) = {}

\* C20: no step of the attach of the Editors Container raises an error while
\* the container is not disposed, whatever the workspace is; the init event
\* finds the User editor in the container; and when the attach has run to its
\* end with no event of the environment in between, init has been fired, the
\* User editor is open, no Workspace editor is open if there is no workspace
\* config URI, and no Folder editor is open if the workspace is unsaved or has
\* no roots.
C20_MissingStateNoError ==
    /\ [][\A t \in AttachTasks(tasks) \ tasks' :
              ecState # "disposed" => Count(effects', "TypeError") = 0]_vars
    /\ [][initCount' # initCount => userW' \in Range(dock')]_vars
    /\ []((AttachEnded /\ events = MaxEvents) =>
              /\ initCount = 1
              /\ Count(effects, "TypeError") = 0
              /\ userW \in Range(dock)
              /\ wsConfig = NoUri => (wsW = NoWidget /\ OpenOfScope("Workspace") = {})
              /\ (~saved \/ roots = <<>>) =>
                     (folderW = NoWidget /\ OpenOfScope("Folder") = {}))

\* The attach has run to its end in an unsaved workspace without config URI
\* and without roots: the User editor is the only one.
C20_Witness ==
    /\ AttachEnded /\ events = MaxEvents
    /\ wsConfig = NoUri /\ ~saved /\ roots = <<>>
    /\ initCount = 1
    /\ dock = <<userW>>

(***************************************************************************)
(* The tracked editors and the current editor after the handlers.          *)
(***************************************************************************)
\* The step that led here ended the handling of a workspace event or of a
\* folder switch.
HandlingEnded ==
    Count(effects, "rootsHandled") + Count(effects, "locationHandled")
        + Count(effects, "clickHandled") > 0

\* C21: when the handling of a roots change, of a location change or of a
\* folder switch has ended, every tracked editor is a widget of the Editors
\* Container.
C21_AsStated ==
    HandlingEnded => \A w \in Range(editors) : w \in Range(dock)

\* The editors the step wrote a preference for or saved on a change of tab.
Targets(log) ==
    { log[i].w : i \in { j \in 1..Len(log) :
                           \/ log[j].op = "set"
                           \/ log[j].op = "save" /\ Handled(log, "onEditorChanged") } }

\* C22: a current editor is a widget of the Editors Container, and neither a
\* preference write nor the save on a change of tab goes to an editor that was
\* closed and disposed before.
C22_AsStated ==
    /\ []((currentEditor # NoWidget /\ ecState = "attached") =>
            (currentEditor \in Range(dock) /\ ~wDisposed[currentEditor]))
    /\ [][\A w \in Targets(effects') : ~wDisposed[w] /\ w \in Range(dock)]_vars

\* C23: the preference scope of an attached Preferences Container is the scope
\* of its current editor whenever there is one; in particular the activation
\* of a scope that has no editor in the Editors Container does not leave the
\* two different.
C23_AsStated ==
    /\ []((currentEditor # NoWidget /\ ecState = "attached") =>
            preferenceScope = wScope[currentEditor])
    /\ [][(Handled(effects', "activateResumed") /\ Count(effects', "activateWidget") = 0
              /\ currentEditor' # NoWidget /\ ecState' = "attached")
              => preferenceScope' = wScope'[currentEditor']]_vars

(***************************************************************************)
(* Overlapping calls of refreshFoldersPreferencesEditorWidget.             *)
(***************************************************************************)
\* The step ends the last suspended call of a group of calls that overlapped,
\* the last of them started for a folder, in a container that is still attached
\* and a workspace that has roots.
OverlapEnds ==
    /\ PendingFolder(tasks) # {} /\ PendingFolder(tasks') = {}
    /\ folderCalls.overlapped /\ folderCalls.last # NoUri
    /\ ecState' = "attached" /\ roots' # <<>>

\* C24: when calls of refreshFoldersPreferencesEditorWidget that overlapped
\* have all completed, exactly one Folder editor is open, it is the one stored
\* as foldersPreferenceEditorWidget, and its folder is the target of the call
\* that was started last.
C24_AsStated ==
    [][OverlapEnds =>
          /\ Cardinality({ w \in Range(dock') : wScope'[w] = "Folder" }) = 1
          /\ folderW' \in { w \in Range(dock') : wScope'[w] = "Folder" }
          /\ parent(parent(wUri'[folderW'])) = folderCalls.last]_vars

(***************************************************************************)
(* The Folder editor after a change of the roots.                          *)
(***************************************************************************)
\* C25: when the listener of a roots change has run to its end in an attached
\* container, an open Folder editor targets one of the workspace roots.
C25_AsStated ==
    (Count(effects, "rootsHandled") > 0 /\ ecState = "attached") =>
        \A w \in OpenOfScope("Folder") : TargetFolder(w) \in Range(roots)

====
